---------------------------- MODULE Spec2Model ----------------------------
(***************************************************************************)
(* A model of cpiofile.py: the new-ASCII ("070701") CPIO archive engine.   *)
(*                                                                         *)
(* The byte store (the file-like object fp shared by the archive and all   *)
(* of its streams) is a sequence of bytes plus one cursor.  Every method   *)
(* of CPIOFile, _ReadableMember, _WriteableMember and CPIOInfo is one      *)
(* operator or action below, named after the method it models.             *)
(*                                                                         *)
(* Bytes are the integers 0..255.  Python strings that the code encodes    *)
(* (names) are modelled by their encoded bytes; the names used here are    *)
(* ASCII, for which str.encode()/bytes.decode() keep the bytes as they     *)
(* are (a store that is read may also hold the byte ff in a name, which    *)
(* bytes.decode() rejects).  Python integers are unbounded; the values     *)
(* used here stay below 2^31, the range of the model checker's integers.   *)
(***************************************************************************)
EXTENDS Integers, Sequences, FiniteSets, TLC

(***************************************************************************)
(* Program constants                                                       *)
(***************************************************************************)

\* _ENTRY_HEADER.size: struct "<6s8s8s8s8s8s8s8s8s8s8s8s8s8s" = 6 + 13 * 8
HEADER_SIZE == 110

\* B"070701"
MAGIC == <<48, 55, 48, 55, 48, 49>>

\* "TRAILER!!!".encode()
TRAILER_NAME == <<84, 82, 65, 73, 76, 69, 82, 33, 33, 33>>

\* 0o755, the mode of the trailer entry written by CPIOFile.close
TRAILER_MODE == 493

(***************************************************************************)
(* Sequence helpers                                                        *)
(***************************************************************************)

Min(a, b) == IF a < b THEN a ELSE b

Max(a, b) == IF a > b THEN a ELSE b

\* s[from+1 .. from+n] in 0-based Python terms: s[from : from+n], clipped
Slice(s, from, n) ==
    LET lo == Min(from, Len(s))
        hi == Min(from + Max(n, 0), Len(s))
    IN  SubSeq(s, lo + 1, hi)

\* bytes * n
Repeat(b, n) == [i \in 1..n |-> b]

IsPrefix(p, s) == Len(p) <= Len(s) /\ SubSeq(s, 1, Len(p)) = p

(***************************************************************************)
(* The file object fp: [data, pos].  BytesIO / a binary file opened "w+b". *)
(***************************************************************************)

\* fp.seek(p, io.SEEK_SET)
FpSeek(fp, p) == [fp EXCEPT !.pos = p]

\* FpSeekEnd left out: the cursor stays where the last call put it
FpSeekEnd_Missing(fp) == fp

\* fp.seek(0, io.SEEK_END)
FpSeekEnd(fp) == [fp EXCEPT !.pos = Len(fp.data)]

\* fp.read(n): the bytes returned; n < 0 reads to the end of the store
FpReadBytes(fp, n) ==
    IF n < 0 THEN Slice(fp.data, fp.pos, Len(fp.data))
             ELSE Slice(fp.data, fp.pos, n)

\* fp.read(n): the file object afterwards (the cursor moves past the bytes)
FpReadAdvance(fp, n) == [fp EXCEPT !.pos = fp.pos + Len(FpReadBytes(fp, n))]

\* fp.write(b): overwrites from the cursor on, zero-filling a gap left by a
\* seek past the end, and moves the cursor past the bytes written
FpWrite(fp, b) ==
    IF Len(b) = 0 THEN fp
    ELSE LET old  == fp.data
             gap  == Repeat(0, Max(fp.pos - Len(old), 0))
             head == Slice(old, 0, fp.pos) \o gap
             tail == Slice(old, fp.pos + Len(b), Len(old))
         IN  [data |-> head \o b \o tail, pos |-> fp.pos + Len(b)]

(***************************************************************************)
(* Hex formatting and parsing                                              *)
(***************************************************************************)

\* one lowercase hex digit, as its ASCII code
HexDigit(d) == IF d < 10 THEN 48 + d ELSE 87 + d

RECURSIVE HexStr(_)
\* format(x, "x") for x >= 0: the shortest lowercase hex numeral
HexStr(x) == IF x < 16 THEN <<HexDigit(x)>>
             ELSE HexStr(x \div 16) \o <<HexDigit(x % 16)>>

\* zero fill on the left up to the width w
ZeroPad(s, w) == Repeat(48, Max(w - Len(s), 0)) \o s

\* f"{x:08x}": the sign counts towards the width of 8
FormatHex08(x) == IF x >= 0 THEN ZeroPad(HexStr(x), 8)
                  ELSE <<45>> \o ZeroPad(HexStr(-x), 7)

\* struct "8s": exactly 8 bytes, a longer value cut, a shorter one NUL filled
Pack8s(s) == [i \in 1..8 |-> IF i <= Len(s) THEN s[i] ELSE 0]

\* the value of one hex digit character, -1 for any other character
DigitVal(c) == IF c >= 48 /\ c <= 57 THEN c - 48
               ELSE IF c >= 97 /\ c <= 102 THEN c - 87
               ELSE IF c >= 65 /\ c <= 70 THEN c - 55
               ELSE -1

\* the bytes bytes.strip() / int() treat as white space
IsSpace(c) == c \in {9, 10, 11, 12, 13, 32}

\* bytes.strip(): s without the white space at its two ends
Strip(s) ==
    LET inked == {i \in 1..Len(s) : ~IsSpace(s[i])}
    IN  IF inked = {} THEN <<>>
        ELSE SubSeq(s, CHOOSE i \in inked : \A k \in inked : i <= k,
                       CHOOSE i \in inked : \A k \in inked : i >= k)

\* the digits of a numeral: hex digits, single underscores only between them
DigitsOk(t) ==
    /\ Len(t) >= 1
    /\ DigitVal(t[1]) >= 0
    /\ DigitVal(t[Len(t)]) >= 0
    /\ \A i \in 1..Len(t) : DigitVal(t[i]) >= 0 \/ t[i] = 95
    /\ \A i \in 1..(Len(t) - 1) : ~(t[i] = 95 /\ t[i + 1] = 95)

NotUnderscore(c) == c # 95

\* the value of a numeral of at most 8 hex digits (a header field holds 8
\* bytes), underscores skipped
DigitsVal(t) ==
    LET ds == SelectSeq(t, NotUnderscore)
        n  == Len(ds)
        term(i) == IF i <= n THEN DigitVal(ds[i]) * 16 ^ (n - i) ELSE 0
    IN  term(1) + term(2) + term(3) + term(4) + term(5) + term(6) + term(7) + term(8)

\* the numeral d, already stripped of white space, sign and prefix
ParseDigits(d, neg) ==
    IF DigitsOk(d)
    THEN [ok |-> TRUE, val |-> IF neg THEN -DigitsVal(d) ELSE DigitsVal(d)]
    ELSE [ok |-> FALSE, val |-> 0]

\* after the 0x/0X prefix int() skips one underscore
ParsePrefixed(c, neg) ==
    ParseDigits(IF Len(c) > 0 /\ c[1] = 95 THEN Tail(c) ELSE c, neg)

\* b is the numeral after its sign
ParseUnsigned(b, neg) ==
    IF Len(b) >= 2 /\ b[1] = 48 /\ b[2] \in {120, 88}
    THEN ParsePrefixed(SubSeq(b, 3, Len(b)), neg)
    ELSE ParseDigits(b, neg)

\* a is the numeral after bytes.strip()
ParseSigned(a) ==
    IF Len(a) > 0 /\ a[1] \in {43, 45}
    THEN ParseUnsigned(Tail(a), a[1] = 45)
    ELSE ParseUnsigned(a, FALSE)

\* int(s, 16) on a bytes object: [ok, val]; ok = FALSE is ValueError.
\* White space around the numeral, a sign, a 0x/0X prefix (with one
\* underscore after it) and underscores between digits are all accepted.
PyInt16(s) == ParseSigned(Strip(s))


(***************************************************************************)
(* CPIOInfo                                                                *)
(*                                                                         *)
(* A descriptor is a record of the slots of CPIOInfo (_offset is offset,   *)
(* _name is name, the encoded bytes).  The field ints says whether every   *)
(* numeric slot holds a Python int: __init__ stores whatever it is given,  *)
(* and a descriptor built with, say, a float st_mtime has ints = FALSE.    *)
(***************************************************************************)

\* CPIOInfo.__init__
CPIOInfo(offset, ino, mode, uid, gid, nlink, mtime, filesize, devmajor, devminor, rdevmajor, rdevminor, name) ==
    [offset |-> offset, ino |-> ino, mode |-> mode, uid |-> uid, gid |-> gid,
     nlink |-> nlink, mtime |-> mtime, filesize |-> filesize,
     devmajor |-> devmajor, devminor |-> devminor,
     rdevmajor |-> rdevmajor, rdevminor |-> rdevminor,
     name |-> name, ints |-> TRUE]

\* WireValues with uid and gid in each other's place
WireValues_Swapped(info) ==
    <<info.ino, info.mode, info.gid, info.uid, info.nlink, info.mtime,
      info.filesize, info.devmajor, info.devminor, info.rdevmajor,
      info.rdevminor, Len(info.name) + 1, 0>>

\* the numeric slots in wire order, followed by namesize and check
WireValues(info) ==
    <<info.ino, info.mode, info.uid, info.gid, info.nlink, info.mtime,
      info.filesize, info.devmajor, info.devminor, info.rdevmajor,
      info.rdevminor, Len(info.name) + 1, 0>>

RECURSIVE PackFields(_)
\* _ENTRY_HEADER.pack over the formatted values: each cut or filled to 8 bytes
PackFields(values) ==
    IF Len(values) = 0 THEN <<>>
    ELSE Pack8s(FormatHex08(Head(values))) \o PackFields(Tail(values))

\* the padding that brings a length n up to a multiple of 4
PadTo4(n) == (4 - (n % 4)) % 4

\* CPIOInfo.encode raises ValueError (format code 'x') unless every value is
\* an int
encode_raises(info) == ~info.ints

\* CPIOInfo.encode: header, name, NUL and padding
encode(info) ==
    LET ret == MAGIC \o PackFields(WireValues(info)) \o info.name \o <<0>>
    IN  ret \o Repeat(0, PadTo4(Len(ret)))

\* CPIOInfo._offset_data
offset_data(info) ==
    info.offset + ((HEADER_SIZE + Len(info.name) + 1 + 3) \div 4) * 4

\* offset_after with the data size not rounded up
offset_after_Unrounded(info) == offset_data(info) + info.filesize

\* CPIOInfo._offset_after
offset_after(info) == offset_data(info) + ((info.filesize + 3) \div 4) * 4

\* the k-th 8-byte field of an unpacked header, k = 1 (ino) .. 13 (check)
HeaderField(header, k) == Slice(header, 6 + 8 * (k - 1), 8)

\* the descriptor stored in a result that carries none
NoInfo == CPIOInfo(0, 0, 0, 0, 0, 0, 0, 0, 0, 0, 0, 0, <<>>)

\* the result of _from_file when it raises BadCPIOFile
Raised(e, f) == [err |-> e, info |-> NoInfo, fp |-> f]

\* _from_file from the name on: name is what fp.read(namesize) returned.
\* name[:-1].decode() raises UnicodeDecodeError, which is no BadCPIOFile, on
\* bytes that are not UTF-8; the bytes f8..ff never are, and the stores here
\* hold no other byte above 7f.
FromName(offset, f, name, fp2) ==
    IF Len(name) # f[12].val THEN Raised("truncated", fp2)
    ELSE IF name[Len(name)] # 0 THEN Raised("no_nul", fp2)
    ELSE IF \E i \in 1..Len(name) : name[i] >= 248 THEN Raised("unicode_error", fp2)
    ELSE [err  |-> "ok",
          info |-> CPIOInfo(offset, f[1].val, f[2].val, f[3].val, f[4].val,
                            f[5].val, f[6].val, f[7].val, f[8].val,
                            f[9].val, f[10].val, f[11].val,
                            SubSeq(name, 1, Len(name) - 1)),
          fp   |-> fp2]

\* _from_file from the decoded fields on: f[k] is int(field k, 16)
FromFields(offset, f, fp1) ==
    IF \E k \in 1..12 : ~f[k].ok THEN Raised("non_hex", fp1)
    ELSE IF f[12].val = 0 THEN Raised("empty_name", fp1)
    ELSE FromName(offset, f, FpReadBytes(fp1, f[12].val),
                  FpReadAdvance(fp1, f[12].val))

\* FromHeader with the fields decoded before the magic is looked at
FromHeader_FieldsFirst(offset, header, fp1) ==
    IF Len(header) # HEADER_SIZE THEN Raised("truncated", fp1)
    ELSE IF \E k \in 1..12 : ~PyInt16(HeaderField(header, k)).ok
    THEN Raised("non_hex", fp1)
    ELSE IF Slice(header, 0, 6) # MAGIC THEN Raised("bad_magic", fp1)
    ELSE FromFields(offset, [k \in 1..12 |-> PyInt16(HeaderField(header, k))], fp1)

\* _from_file from the header on: header is what fp.read(110) returned
FromHeader(offset, header, fp1) ==
    IF Len(header) # HEADER_SIZE THEN Raised("truncated", fp1)
    ELSE IF Slice(header, 0, 6) # MAGIC THEN Raised("bad_magic", fp1)
    ELSE FromFields(offset, [k \in 1..12 |-> PyInt16(HeaderField(header, k))], fp1)

\* CPIOInfo._from_file: [err, info, fp].  err is "ok" or names the
\* BadCPIOFile raised; fp is the file object afterwards.
from_file(fp) ==
    FromHeader(fp.pos, FpReadBytes(fp, HEADER_SIZE), FpReadAdvance(fp, HEADER_SIZE))

(***************************************************************************)
(* Bounds and the inputs the callers draw from                             *)
(***************************************************************************)

\* WriteStream handles a caller obtains (closed handles are kept)
MaxWriters == 2

\* ReadStream handles a caller obtains
MaxReaders == 2

\* successful CPIOFile.close() calls on a writeable archive
MaxTrailers == 2

\* bytes a caller may write to one stream beyond its declared size
MaxOver == 1

\* descriptors a caller takes from one generator
MaxYield == 3

\* the descriptors callers write members with (offset is not used by writes)
InfoA == CPIOInfo(0, 1, 33188, 1000, 100, 1, 2147483647, 2, 8, 1, 0, 171, <<97>>)

InfoB == CPIOInfo(0, 11259375, 16877, 0, 65535, 2, 1, 1, 0, 254, 4096, 0, <<98, 99>>)

\* a member that carries the trailer's name
InfoT == CPIOInfo(0, 7, 33188, 0, 0, 1, 0, 1, 0, 0, 0, 0, TRAILER_NAME)

\* a descriptor whose mtime is a float (os.stat's st_mtime as it comes)
InfoF == [CPIOInfo(0, 2, 33188, 0, 0, 1, 1, 0, 0, 0, 0, 0, <<102>>) EXCEPT !.ints = FALSE]

Infos == {InfoA, InfoB, InfoT, InfoF}

\* the byte strings callers pass to write()
Chunks == {<<120>>, <<121, 122>>}

\* the sizes callers pass to read()
ReadSizes == {-1, 0, 1, 2}

\* the mode strings callers pass
Modes == {"r", "w", "a"}

(***************************************************************************)
(* The methods, as functions of the objects they touch.  An archive is     *)
(* [writeable, writer_active], a WriteStream [expected_length,             *)
(* actual_length, closed], a ReadStream [start, length, pos].  Each        *)
(* returns the objects afterwards and err: "ok", or the exception raised.  *)
(***************************************************************************)

NoWriter == [expected_length |-> 0, actual_length |-> 0, closed |-> TRUE]

NoReader == [start |-> 0, length |-> 0, pos |-> 0]

\* CPIOFile.__init__
CPIOFile_init(mode) ==
    IF mode \notin {"r", "w"}
    THEN [err |-> "unknown_mode", ar |-> [writeable |-> FALSE, writer_active |-> FALSE]]
    ELSE [err |-> "ok", ar |-> [writeable |-> mode = "w", writer_active |-> FALSE]]

\* _ReadableMember.__init__
ReadableMember_init(info) ==
    [start |-> offset_data(info), length |-> info.filesize, pos |-> 0]

\* ReadClip without the clip to what is left of the member
ReadClip_Unclipped(rs, n) == n

\* the size _ReadableMember._read asks the file for
ReadClip(rs, n) ==
    IF n < 0 \/ n > rs.length - rs.pos THEN rs.length - rs.pos ELSE n

\* _ReadableMember.read / _read: [rs, fp, data]
ReadableMember_read(rs, f, n) ==
    LET f1  == FpSeek(f, rs.start + rs.pos)
        got == FpReadBytes(f1, ReadClip(rs, n))
    IN  [rs   |-> [rs EXCEPT !.pos = rs.pos + Len(got)],
         fp   |-> FpReadAdvance(f1, ReadClip(rs, n)),
         data |-> got]

\* WriteableMember_init with the header written before the latch is looked at
WriteableMember_init_LateCheck(ar, f, info) ==
    LET f1 == FpWrite(FpSeekEnd(f), encode(info))
    IN  IF ar.writer_active
        THEN [err |-> "concurrent_writer", ar |-> ar, fp |-> f1, ws |-> NoWriter]
        ELSE [err |-> "ok", ar |-> [ar EXCEPT !.writer_active = TRUE], fp |-> f1,
              ws  |-> [expected_length |-> info.filesize,
                       actual_length   |-> 0,
                       closed          |-> FALSE]]

\* _WriteableMember.__init__: [err, ar, fp, ws]
WriteableMember_init(ar, f, info) ==
    IF ar.writer_active
    THEN [err |-> "concurrent_writer", ar |-> ar, fp |-> f, ws |-> NoWriter]
    ELSE LET ar1 == [ar EXCEPT !.writer_active = TRUE]
             f1  == FpSeekEnd(f)
         IN  IF encode_raises(info)
             THEN [err |-> "encode_error", ar |-> ar1, fp |-> f1, ws |-> NoWriter]
             ELSE [err |-> "ok", ar |-> ar1, fp |-> FpWrite(f1, encode(info)),
                   ws  |-> [expected_length |-> info.filesize,
                            actual_length   |-> 0,
                            closed          |-> FALSE]]

\* _WriteableMember.write: [ws, fp]
WriteableMember_write(ws, f, data) ==
    [ws |-> [ws EXCEPT !.actual_length = ws.actual_length + Len(data)],
     fp |-> FpWrite(FpSeekEnd(f), data)]

\* WriteableMember_close with the padding written before the length check
WriteableMember_close_PadsFirst(ws, ar, f) ==
    LET f1 == FpWrite(FpSeekEnd(f), Repeat(0, PadTo4(ws.actual_length)))
    IN  IF ws.closed
        THEN [err |-> "ok", ws |-> ws, ar |-> ar, fp |-> f]
        ELSE IF ws.actual_length # ws.expected_length
        THEN [err |-> "length_mismatch", ws |-> ws, ar |-> ar, fp |-> f1]
        ELSE [err |-> "ok",
              ws  |-> [ws EXCEPT !.closed = TRUE],
              ar  |-> [ar EXCEPT !.writer_active = FALSE],
              fp  |-> f1]

\* WriteableMember_close without the last line: the latch is never cleared
WriteableMember_close_KeepsLatch(ws, ar, f) ==
    IF ws.closed
    THEN [err |-> "ok", ws |-> ws, ar |-> ar, fp |-> f]
    ELSE IF ws.actual_length # ws.expected_length
    THEN [err |-> "length_mismatch", ws |-> ws, ar |-> ar, fp |-> f]
    ELSE [err |-> "ok",
          ws  |-> [ws EXCEPT !.closed = TRUE],
          ar  |-> ar,
          fp  |-> FpWrite(FpSeekEnd(f), Repeat(0, PadTo4(ws.actual_length)))]

\* WriteableMember_close with the latch cleared in a finally clause
WriteableMember_close_ReleasesAlways(ws, ar, f) ==
    IF ws.closed
    THEN [err |-> "ok", ws |-> ws, ar |-> ar, fp |-> f]
    ELSE IF ws.actual_length # ws.expected_length
    THEN [err |-> "length_mismatch", ws |-> ws,
          ar  |-> [ar EXCEPT !.writer_active = FALSE], fp |-> f]
    ELSE [err |-> "ok",
          ws  |-> [ws EXCEPT !.closed = TRUE],
          ar  |-> [ar EXCEPT !.writer_active = FALSE],
          fp  |-> FpWrite(FpSeekEnd(f), Repeat(0, PadTo4(ws.actual_length)))]

\* _WriteableMember.close: [err, ws, ar, fp]
WriteableMember_close(ws, ar, f) ==
    IF ws.closed
    THEN [err |-> "ok", ws |-> ws, ar |-> ar, fp |-> f]
    ELSE IF ws.actual_length # ws.expected_length
    THEN [err |-> "length_mismatch", ws |-> ws, ar |-> ar, fp |-> f]
    ELSE [err |-> "ok",
          ws  |-> [ws EXCEPT !.closed = TRUE],
          ar  |-> [ar EXCEPT !.writer_active = FALSE],
          fp  |-> FpWrite(FpSeekEnd(f), Repeat(0, PadTo4(ws.actual_length)))]

\* CPIOFile_open with no look at the archive's own mode
CPIOFile_open_Unchecked(ar, f, info, mode) ==
    IF mode = "r"
    THEN [err |-> "ok", kind |-> "r", ar |-> ar, fp |-> f,
          ws |-> NoWriter, rs |-> ReadableMember_init(info)]
    ELSE IF mode = "w"
    THEN LET w == WriteableMember_init(ar, f, info)
         IN  [err |-> w.err, kind |-> "w", ar |-> w.ar, fp |-> w.fp,
              ws |-> w.ws, rs |-> NoReader]
    ELSE [err |-> "unknown_mode", kind |-> mode, ar |-> ar, fp |-> f,
          ws |-> NoWriter, rs |-> NoReader]

\* CPIOFile.open: [err, kind, ar, fp, ws, rs]; kind says which stream is returned
CPIOFile_open(ar, f, info, mode) ==
    IF mode = "r"
    THEN [err |-> "ok", kind |-> "r", ar |-> ar, fp |-> f,
          ws |-> NoWriter, rs |-> ReadableMember_init(info)]
    ELSE IF mode = "w"
    THEN IF ar.writeable
         THEN LET w == WriteableMember_init(ar, f, info)
              IN  [err |-> w.err, kind |-> "w", ar |-> w.ar, fp |-> w.fp,
                   ws |-> w.ws, rs |-> NoReader]
         ELSE [err |-> "read_only", kind |-> "w", ar |-> ar, fp |-> f,
               ws |-> NoWriter, rs |-> NoReader]
    ELSE [err |-> "unknown_mode", kind |-> mode, ar |-> ar, fp |-> f,
          ws |-> NoWriter, rs |-> NoReader]

\* TrailerInfo with the link count left at 0
TrailerInfo_NoLink == CPIOInfo(0, 0, TRAILER_MODE, 0, 0, 0, 0, 0, 0, 0, 0, 0, TRAILER_NAME)

\* the descriptor CPIOFile.close writes
TrailerInfo == CPIOInfo(0, 0, TRAILER_MODE, 0, 0, 1, 0, 0, 0, 0, 0, 0, TRAILER_NAME)

\* CPIOFile_close writing the trailer itself, with no look at the latch
CPIOFile_close_Unchecked(ar, f) ==
    IF ~ar.writeable THEN [err |-> "ok", ar |-> ar, fp |-> f]
    ELSE [err |-> "ok", ar |-> ar, fp |-> FpWrite(FpSeekEnd(f), encode(TrailerInfo))]

\* CPIOFile_close with the archive shut once its trailer is written: the
\* latch is kept as the closed flag
CPIOFile_close_Shuts(ar, f) ==
    IF ~ar.writeable THEN [err |-> "ok", ar |-> ar, fp |-> f]
    ELSE IF ar.writer_active THEN [err |-> "writer_open", ar |-> ar, fp |-> f]
    ELSE [err |-> "ok", ar |-> [ar EXCEPT !.writer_active = TRUE],
          fp |-> FpWrite(FpSeekEnd(f), encode(TrailerInfo))]

\* CPIOFile.close: [err, ar, fp].  The with statement closes the stream it
\* opened on the way out.
CPIOFile_close(ar, f) ==
    IF ~ar.writeable THEN [err |-> "ok", ar |-> ar, fp |-> f]
    ELSE IF ar.writer_active THEN [err |-> "writer_open", ar |-> ar, fp |-> f]
    ELSE LET o == CPIOFile_open(ar, f, TrailerInfo, "w")
             c == WriteableMember_close(o.ws, o.ar, o.fp)
         IN  IF o.err # "ok" THEN [err |-> o.err, ar |-> o.ar, fp |-> o.fp]
             ELSE [err |-> c.err, ar |-> c.ar, fp |-> c.fp]

\* A scan (the generator infolist returns) is [state, info, err]: "new"
\* before its first step, "suspended" at the yield, "done" after the break,
\* "raised" after BadCPIOFile (err says which); info is the generator's local
\* variable info, the descriptor decoded last.
NewScan == [state |-> "new", info |-> NoInfo, err |-> "ok"]

\* no infolist() call has been made
NoScan == [state |-> "none", info |-> NoInfo, err |-> "ok"]

\* what the loop of infolist does with the result r of _from_file
ScanResult(r) ==
    IF r.err # "ok"
    THEN [gen |-> [state |-> "raised", info |-> NoInfo, err |-> r.err],
          fp |-> r.fp, yielded |-> FALSE]
    ELSE IF r.info.name = TRAILER_NAME
    THEN [gen |-> [state |-> "done", info |-> r.info, err |-> "ok"],
          fp |-> r.fp, yielded |-> FALSE]
    ELSE [gen |-> [state |-> "suspended", info |-> r.info, err |-> "ok"],
          fp |-> r.fp, yielded |-> TRUE]

\* infolist_next without the seek to 0 before the first entry
infolist_next_NoRewind(gen, f) ==
    ScanResult(from_file(IF gen.state = "new" THEN f
                         ELSE FpSeek(f, offset_after(gen.info))))

\* infolist_next with the seek past the data made from the cursor
\* (io.SEEK_CUR), which a generator left alone has just behind the name
infolist_next_Relative(gen, f) ==
    ScanResult(from_file(IF gen.state = "new" THEN FpSeek(f, 0)
                         ELSE FpSeek(f, f.pos + offset_after(gen.info)
                                         - (gen.info.offset + HEADER_SIZE
                                            + Len(gen.info.name) + 1))))

\* one next() on the generator of CPIOFile.infolist: [gen, fp, yielded]
infolist_next(gen, f) ==
    ScanResult(from_file(IF gen.state = "new" THEN FpSeek(f, 0)
                         ELSE FpSeek(f, offset_after(gen.info))))

(***************************************************************************)
(* State                                                                   *)
(***************************************************************************)

VARIABLES
    fp,        \* the store: [data, pos]
    archive,   \* the CPIOFile: [writeable, writer_active]
    wstreams,  \* the _WriteableMember objects the caller holds, in the order made
    rstreams,  \* the _ReadableMember objects the caller holds
    gen,       \* the generator of the latest infolist() call
    gen2,      \* a generator of another infolist() call the caller holds
    ret,       \* the latest call: [op, err, data], data the bytes a read returned
    wlog,      \* history, per wstreams entry: [info, data, mismatch]
    rlog,      \* history, per rstreams entry: [info, got]
    yielded,   \* history: the descriptors gen has yielded
    hist       \* history: [trailers, sealed, stray, offend, moved]: the
               \* trailers written, the members in the store when the first
               \* was (-1 before), whether a closed stream was written to,
               \* whether a write-side call found the cursor off the end, and
               \* whether the latest step of gen found the cursor moved

vars == <<fp, archive, wstreams, rstreams, gen, gen2, ret, wlog, rlog, yielded, hist>>

Result(op, err) == [op |-> op, err |-> err, data |-> <<>>]

\* this call appends to the store and found the cursor off its end
OffEnd == fp.pos # Len(fp.data) /\ fp'.data # fp.data

\* where _from_file left the cursor when it returned gen.info: behind the name
OwnCursor == gen.info.offset + HEADER_SIZE + Len(gen.info.name) + 1

\* the state after CPIOFile(fp, mode) over an empty store
Init ==
    /\ fp = [data |-> <<>>, pos |-> 0]
    /\ \E mode \in Modes :
          /\ CPIOFile_init(mode).err = "ok"
          /\ archive = CPIOFile_init(mode).ar
    /\ wstreams = <<>>
    /\ rstreams = <<>>
    /\ gen = NoScan
    /\ gen2 = NoScan
    /\ ret = Result("init", "ok")
    /\ wlog = <<>>
    /\ rlog = <<>>
    /\ yielded = <<>>
    /\ hist = [trailers |-> 0, sealed |-> -1, stray |-> FALSE, offend |-> FALSE,
               moved |-> FALSE]

(***************************************************************************)
(* Actions: one per call a caller can make                                 *)
(***************************************************************************)

\* the descriptors a caller can hand to open(info, "r"): the ones the scan
\* has yielded, and ones of its own making
ReadInfos == {yielded[k] : k \in 1..Len(yielded)} \cup {InfoA}

\* archive.open(info, mode)
Open(info, mode) ==
    /\ mode = "w" => info \in Infos
    /\ mode = "r" => info \in ReadInfos
    /\ mode \notin {"r", "w"} => info = InfoA
    /\ LET o == CPIOFile_open(archive, fp, info, mode)
       IN  /\ (o.err = "ok" /\ o.kind = "w") => Len(wstreams) < MaxWriters
           /\ (o.err = "ok" /\ o.kind = "r") => Len(rstreams) < MaxReaders
           /\ fp' = o.fp
           /\ archive' = o.ar
           /\ ret' = Result("open_" \o mode, o.err)
           /\ IF o.err = "ok" /\ o.kind = "w"
              THEN /\ wstreams' = Append(wstreams, o.ws)
                   /\ wlog' = Append(wlog, [info |-> info, data |-> <<>>, mismatch |-> FALSE])
              ELSE UNCHANGED <<wstreams, wlog>>
           /\ IF o.err = "ok" /\ o.kind = "r"
              THEN /\ rstreams' = Append(rstreams, o.rs)
                   /\ rlog' = Append(rlog, [info |-> info, got |-> <<>>])
              ELSE UNCHANGED <<rstreams, rlog>>
    /\ hist' = [hist EXCEPT !.offend = @ \/ OffEnd]
    /\ UNCHANGED <<gen, gen2, yielded>>

\* wstreams[i].write(data); nothing in the code stops a write to a closed stream
Write(i, data) ==
    /\ i \in 1..Len(wstreams)
    /\ wstreams[i].actual_length + Len(data) <= wstreams[i].expected_length + MaxOver
    /\ LET w == WriteableMember_write(wstreams[i], fp, data)
       IN  /\ fp' = w.fp
           /\ wstreams' = [wstreams EXCEPT ![i] = w.ws]
    /\ wlog' = [wlog EXCEPT ![i].data = @ \o data]
    /\ hist' = [hist EXCEPT !.stray = @ \/ wstreams[i].closed,
                            !.offend = @ \/ OffEnd]
    /\ ret' = Result("write", "ok")
    /\ UNCHANGED <<archive, rstreams, rlog, gen, gen2, yielded>>

\* wstreams[i].close()
CloseMember(i) ==
    /\ i \in 1..Len(wstreams)
    /\ LET c == WriteableMember_close(wstreams[i], archive, fp)
       IN  /\ fp' = c.fp
           /\ archive' = c.ar
           /\ wstreams' = [wstreams EXCEPT ![i] = c.ws]
           /\ wlog' = [wlog EXCEPT ![i].mismatch = @ \/ c.err = "length_mismatch"]
           /\ ret' = Result("close_member", c.err)
    /\ hist' = [hist EXCEPT !.offend = @ \/ OffEnd]
    /\ UNCHANGED <<rstreams, rlog, gen, gen2, yielded>>

\* archive.close()
CloseArchive ==
    /\ hist.trailers < MaxTrailers \/ ~archive.writeable \/ archive.writer_active
    /\ LET c == CPIOFile_close(archive, fp)
           wrote == c.err = "ok" /\ archive.writeable
       IN  /\ fp' = c.fp
           /\ archive' = c.ar
           /\ ret' = Result("close", c.err)
           /\ hist' = IF wrote
                      THEN [hist EXCEPT !.trailers = @ + 1,
                                        !.sealed = IF @ < 0 THEN Len(wstreams) ELSE @,
                                        !.offend = @ \/ OffEnd]
                      ELSE [hist EXCEPT !.offend = @ \/ OffEnd]
    /\ UNCHANGED <<wstreams, wlog, rstreams, rlog, gen, gen2, yielded>>

\* archive.infolist(): a new generator; no I/O happens before its first step
Infolist ==
    /\ gen.state # "new"
    /\ gen' = NewScan
    /\ yielded' = <<>>
    /\ ret' = Result("infolist", "ok")
    /\ UNCHANGED <<fp, archive, wstreams, wlog, rstreams, rlog, gen2, hist>>

\* next(gen)
ScanNext ==
    /\ gen.state \in {"new", "suspended"}
    /\ Len(yielded) < MaxYield
    /\ LET n == infolist_next(gen, fp)
       IN  /\ gen' = n.gen
           /\ fp' = n.fp
           /\ yielded' = IF n.yielded THEN Append(yielded, n.gen.info) ELSE yielded
           /\ ret' = Result("next", n.gen.err)
    /\ hist' = [hist EXCEPT !.moved = gen.state = "suspended" /\ fp.pos # OwnCursor]
    /\ UNCHANGED <<archive, wstreams, wlog, rstreams, rlog, gen2>>

\* archive.infolist() once more, the earlier generator kept
Infolist2 ==
    /\ gen2.state # "new"
    /\ gen2' = NewScan
    /\ ret' = Result("infolist2", "ok")
    /\ UNCHANGED <<fp, archive, wstreams, wlog, rstreams, rlog, gen, yielded, hist>>

\* next(gen2)
ScanNext2 ==
    /\ gen2.state \in {"new", "suspended"}
    /\ LET n == infolist_next(gen2, fp)
       IN  /\ gen2' = n.gen
           /\ fp' = n.fp
           /\ ret' = Result("next2", n.gen.err)
    /\ UNCHANGED <<archive, wstreams, wlog, rstreams, rlog, gen, yielded, hist>>

\* rstreams[j].read(n)
Read(j, n) ==
    /\ j \in 1..Len(rstreams)
    /\ LET r == ReadableMember_read(rstreams[j], fp, n)
       IN  /\ fp' = r.fp
           /\ rstreams' = [rstreams EXCEPT ![j] = r.rs]
           /\ rlog' = [rlog EXCEPT ![j].got = @ \o r.data]
           /\ ret' = [op |-> "read", err |-> "ok", data |-> r.data]
    /\ UNCHANGED <<archive, wstreams, wlog, gen, gen2, yielded, hist>>

(***************************************************************************)
(* Specifications.  All run the same actions; they differ in what the     *)
(* caller does with them.  SpecScan and SpecReopen are defined further     *)
(* down, with the claims they serve.                                       *)
(*                                                                         *)
(* SpecWrite      the write side alone, used in every way the code lets a  *)
(*                caller use it: any descriptor, writes short of and past  *)
(*                the declared size, writes to closed streams, closes in   *)
(*                any order, unknown modes.                                *)
(* SpecRoundTrip  a caller that writes members as documented (each stream  *)
(*                written up to its declared size while open), closes the  *)
(*                archive, and then scans and reads.                       *)
(* Spec           every call interleaved freely over one member, so that   *)
(*                reads and scan steps move the shared cursor between any  *)
(*                two write-side calls and between any two reads.          *)
(***************************************************************************)

\* a write the documentation allows: to an open stream, within its size
WithinSize(i, data) ==
    /\ i \in 1..Len(wstreams)
    /\ ~wstreams[i].closed
    /\ wstreams[i].actual_length + Len(data) <= wstreams[i].expected_length

\* the archive has been closed (its trailer written)
Sealed == hist.sealed >= 0

NextWrite ==
    \/ \E info \in Infos, mode \in {"w", "a"} : Open(info, mode)
    \/ \E i \in 1..MaxWriters, data \in Chunks : Write(i, data)
    \/ \E i \in 1..MaxWriters : CloseMember(i)
    \/ CloseArchive

SpecWrite == Init /\ [][NextWrite]_vars

NextRoundTrip ==
    \/ \E info \in {InfoA, InfoB, InfoT} : ~Sealed /\ Open(info, "w")
    \/ \E i \in 1..MaxWriters, data \in Chunks : WithinSize(i, data) /\ Write(i, data)
    \/ \E i \in 1..MaxWriters : ~Sealed /\ CloseMember(i)
    \/ ~Sealed /\ CloseArchive
    \/ Sealed /\ Infolist
    \/ ScanNext
    \/ \E info \in ReadInfos : Sealed /\ Len(rstreams) = 0 /\ Open(info, "r")
    \/ \E j \in 1..MaxReaders, n \in ReadSizes : Read(j, n)

SpecRoundTrip == Init /\ [][NextRoundTrip]_vars

Next ==
    \/ Len(wstreams) = 0 /\ Open(InfoA, "w")
    \/ \E i \in 1..MaxWriters, data \in Chunks : WithinSize(i, data) /\ Write(i, data)
    \/ \E i \in 1..MaxWriters : CloseMember(i)
    \/ CloseArchive
    \/ Infolist
    \/ ScanNext
    \/ \E info \in ReadInfos : Open(info, "r")
    \/ \E j \in 1..MaxReaders, n \in ReadSizes : Read(j, n)

Spec == Init /\ [][Next]_vars

(***************************************************************************)
(* The error kinds of the specification.  The code raises ValueError for   *)
(* all of them; the message tells them apart.                              *)
(***************************************************************************)

\* "Cannot open two CPIO member writers at the same time." and
\* "Cannot close CPIO until member writer has been closed."
ConcurrentWriterError(err) == err \in {"concurrent_writer", "writer_open"}

\* "Writer wrote ... bytes but info specified ... bytes."
LengthMismatchError(err) == err = "length_mismatch"

\* the WriteStreams that have been constructed and not yet closed
OpenWriters == {i \in 1..Len(wstreams) : ~wstreams[i].closed}

(***************************************************************************)
(* C2.  In a write-mode archive, open_member(d, 'w') while writer_active is *)
(* true fails with ConcurrentWriterError for every descriptor d and        *)
(* changes nothing: the store (bytes and cursor), writer_active and every  *)
(* stream's declared length, actual_length and closed flag stay as they    *)
(* were.                                                                   *)
(***************************************************************************)
C2_SecondWriterRefused ==
    [][\A d \in Infos :
          (Open(d, "w") /\ archive.writeable /\ archive.writer_active)
          => /\ ConcurrentWriterError(ret'.err)
             /\ fp' = fp
             /\ archive' = archive
             /\ wstreams' = wstreams]_vars

\* a second open was refused while a stream with bytes written was open
C2_Witness ==
    /\ ret.op = "open_w"
    /\ ret.err = "concurrent_writer"
    /\ archive.writer_active
    /\ \E i \in OpenWriters : wstreams[i].actual_length > 0

(***************************************************************************)
(* C3.  The claim: in every reachable state of a write-mode archive,       *)
(* writer_active is true exactly when one WriteStream has been constructed *)
(* and not yet closed, and at most one such stream exists; a construction  *)
(* that fails leaves writer_active as it was.                              *)
(***************************************************************************)
C3_LatchIffOneOpenWriter ==
    /\ Cardinality(OpenWriters) <= 1
    /\ archive.writer_active <=> OpenWriters # {}

C5_LatchReleasedOnEveryExit ==
    [][\A i \in 1..MaxWriters :
          (CloseMember(i) /\ ~wstreams[i].closed) => ~archive'.writer_active]_vars

(***************************************************************************)
(* C5, amended.  close() on the stream that holds the latch releases it on *)
(* every path that returns: after a close() that returns, writer_active is *)
(* false and the stream is closed; after a close() that fails with         *)
(* LengthMismatchError the latch is still held.                            *)
(***************************************************************************)
C5_LatchReleasedOnReturn ==
    [][\A i \in 1..MaxWriters :
          (CloseMember(i) /\ ~wstreams[i].closed)
          => IF ret'.err = "ok"
             THEN ~archive'.writer_active /\ wstreams'[i].closed
             ELSE LengthMismatchError(ret'.err) /\ archive'.writer_active]_vars

\* a stream that held the latch has been closed and the latch is free
C5_Witness ==
    /\ ret.op = "close_member"
    /\ ret.err = "ok"
    /\ ~archive.writer_active
    /\ \E i \in 1..Len(wstreams) : wstreams[i].closed /\ wstreams[i].actual_length > 0

Overrun(i) ==
    /\ i \in 1..Len(wstreams)
    /\ wlog[i].mismatch
    /\ ~wstreams[i].closed
    /\ wstreams[i].actual_length > wstreams[i].expected_length

C7_CloseRefusedWhileWriting ==
    [][(CloseArchive /\ archive.writeable /\ archive.writer_active)
       => /\ ConcurrentWriterError(ret'.err)
          /\ fp' = fp
          /\ archive' = archive
          /\ wstreams' = wstreams
          /\ hist'.trailers = hist.trailers]_vars

\* Archive.close() was refused while a stream with bytes written was open
C7_Witness ==
    /\ ret.op = "close"
    /\ ret.err = "writer_open"
    /\ archive.writer_active
    /\ \E i \in OpenWriters : wstreams[i].actual_length > 0

(***************************************************************************)
(* Round trip and trailer (SpecRoundTrip)                                  *)
(***************************************************************************)

\* every numeric field and the name of two descriptors agree
SameFields(a, b) ==
    /\ a.ino = b.ino /\ a.mode = b.mode /\ a.uid = b.uid /\ a.gid = b.gid
    /\ a.nlink = b.nlink /\ a.mtime = b.mtime /\ a.filesize = b.filesize
    /\ a.devmajor = b.devmajor /\ a.devminor = b.devminor
    /\ a.rdevmajor = b.rdevmajor /\ a.rdevminor = b.rdevminor
    /\ a.name = b.name

\* no member written before the archive was closed carries the trailer's name
NoMemberNamedTrailer ==
    \A k \in 1..hist.sealed : wlog[k].info.name # TRAILER_NAME

\* what a scan of the closed archive has yielded so far is what was written,
\* in write order, and every ReadStream on a yielded descriptor has returned
\* a prefix of that member's data, all of it once it is at its end
ScanMatchesWrites ==
    /\ gen.state # "raised"
    /\ Len(yielded) <= hist.sealed
    /\ \A k \in 1..Len(yielded) : SameFields(yielded[k], wlog[k].info)
    /\ gen.state = "done" => Len(yielded) = hist.sealed
    /\ \A j \in 1..Len(rstreams), k \in 1..Len(yielded) :
          rlog[j].info = yielded[k]
          => /\ IsPrefix(rlog[j].got, wlog[k].data)
             /\ Len(rlog[j].got) = rstreams[j].pos
             /\ rstreams[j].pos = rstreams[j].length => rlog[j].got = wlog[k].data

\* read(-1) on a ReadStream over a yielded descriptor leaves it holding the
\* whole of that member's data
ReadAllReturnsData ==
    \A j \in 1..MaxReaders, k \in 1..Len(yielded) :
        (Read(j, -1) /\ rlog[j].info = yielded[k]) => rlog'[j].got = wlog[k].data

(***************************************************************************)
(* C1.  The claim as stated: for any sequence of members, each with any    *)
(* descriptor (any name) and data of the declared size, written through    *)
(* open_member / write / close in order and followed by Archive.close(), a *)
(* scan of the store yields exactly those members in write order with      *)
(* every numeric field and the name as written, and a ReadStream on each   *)
(* yielded descriptor returns the data written for that member.            *)
(***************************************************************************)
C1_RoundTripAnyName ==
    [][Sealed' => (ScanMatchesWrites' /\ ReadAllReturnsData)]_vars

(***************************************************************************)
(* C1, amended.  The same, for members none of which is named TRAILER!!!:  *)
(* the scan ends at the first entry of that name, so it yields neither a   *)
(* member so named nor any member written after it.                        *)
(***************************************************************************)
C1_RoundTrip ==
    [][(Sealed' /\ NoMemberNamedTrailer')
       => (ScanMatchesWrites' /\ ReadAllReturnsData)]_vars

\* two different members have been written, the archive closed, a scan has
\* run to its end and the second member's data has been read back
C1_Witness ==
    /\ Sealed /\ NoMemberNamedTrailer
    /\ hist.sealed = 2
    /\ wlog[1].info.name # wlog[2].info.name
    /\ gen.state = "done"
    /\ \E j \in 1..Len(rstreams) :
          /\ rlog[j].info = yielded[2]
          /\ rlog[j].got = wlog[2].data
          /\ Len(rlog[j].got) > 0

\* eight ASCII zeros: the hex field of the value 0
Zero8 == <<48, 48, 48, 48, 48, 48, 48, 48>>

\* the wire form of a well-formed trailer, byte for byte: magic, inode 0,
\* mode 000001ed (0o755), uid 0, gid 0, link count 1, mtime 0, size 0, the
\* four device numbers 0, namesize 0000000b, check 0, TRAILER!!! and its
\* NUL, and three bytes of padding up to 124 = 31 * 4
TrailerWire ==
    MAGIC \o Zero8 \o <<48, 48, 48, 48, 48, 49, 101, 100>> \o Zero8 \o Zero8
          \o <<48, 48, 48, 48, 48, 48, 48, 49>> \o Zero8 \o Zero8
          \o Zero8 \o Zero8 \o Zero8 \o Zero8
          \o <<48, 48, 48, 48, 48, 48, 48, 98>> \o Zero8
          \o TRAILER_NAME \o <<0, 0, 0, 0>>

\* the entry the scan stopped at is a well-formed trailer, and the only one:
\* it is the last thing in the store
HaltsAtTrailer ==
    gen.state = "done"
    => /\ gen.info.name = TRAILER_NAME
       /\ gen.info.filesize = 0 /\ gen.info.ino = 0 /\ gen.info.mode = 493
       /\ gen.info.nlink = 1
       /\ gen.info.uid = 0 /\ gen.info.gid = 0 /\ gen.info.mtime = 0
       /\ gen.info.devmajor = 0 /\ gen.info.devminor = 0
       /\ gen.info.rdevmajor = 0 /\ gen.info.rdevminor = 0
       /\ (offset_after(gen.info) - gen.info.offset) % 4 = 0
       /\ offset_after(gen.info) = Len(fp.data)
       /\ Slice(fp.data, gen.info.offset, Len(fp.data)) = TrailerWire

\* a scan yields no descriptor named TRAILER!!!, and Archive.close() leaves
\* the latch free
NeverYieldsTrailer ==
    /\ \A k \in 1..Len(yielded) : yielded[k].name # TRAILER_NAME
    /\ (ret.op = "close" /\ ret.err = "ok") => ~archive.writer_active

(***************************************************************************)
(* C8.  The claim as stated: for any store produced by a write-mode        *)
(* archive over an empty store (any members, fully written and closed,     *)
(* then Archive.close()), a scan never yields a descriptor named           *)
(* TRAILER!!! and halts at a well-formed trailer, the only one, at that    *)
(* position; Archive.close() leaves writer_active false.                   *)
(***************************************************************************)
C8_HaltsAtTrailerAnyName ==
    Sealed => (NeverYieldsTrailer /\ HaltsAtTrailer)

(***************************************************************************)
(* C8, amended.  The same, for members none of which is named TRAILER!!!   *)
(* (the scan halts at the first entry of that name, which is then the      *)
(* member and not the trailer Archive.close() wrote).  That no descriptor  *)
(* named TRAILER!!! is yielded, and that Archive.close() leaves the latch  *)
(* free, holds for every name.                                             *)
(***************************************************************************)
C8_HaltsAtTrailer ==
    Sealed => (NeverYieldsTrailer /\ (NoMemberNamedTrailer => HaltsAtTrailer))

\* a scan of a closed archive of two members has halted at the trailer
C8_Witness ==
    /\ Sealed /\ NoMemberNamedTrailer
    /\ gen.state = "done"
    /\ Len(yielded) = 2
    /\ gen.info.offset > 0

(***************************************************************************)
(* Cursor independence (Spec)                                              *)
(***************************************************************************)

(***************************************************************************)
(* C9.  Writing is append-only: every write-side call (WriteStream         *)
(* construction, write, close, Archive.close) leaves the bytes already in  *)
(* the store as they are and puts its new bytes exactly at the store's     *)
(* previous end, wherever reads and scan steps left the cursor; no call    *)
(* of any kind shortens or rewrites the store.                             *)
(***************************************************************************)
C9_AppendOnly ==
    [][/\ IsPrefix(fp.data, fp'.data)
       /\ \A i \in 1..MaxWriters, data \in Chunks :
             Write(i, data) => fp'.data = fp.data \o data
       /\ \A d \in Infos :
             (Open(d, "w") /\ ret'.err = "ok")
             => /\ Len(fp'.data) = Len(fp.data) + 4 * ((HEADER_SIZE + Len(d.name) + 4) \div 4)
                /\ Slice(fp'.data, Len(fp.data), 6) = MAGIC
       /\ \A i \in 1..MaxWriters :
             CloseMember(i)
             => \E k \in 0..3 : fp'.data = fp.data \o Repeat(0, k)
       /\ (CloseArchive /\ archive.writeable /\ ret'.err = "ok")
             => fp'.data = fp.data \o TrailerWire]_vars

\* a write() found the cursor away from the end, where a read had left it,
\* and its bytes are the last in the store
C9_Witness ==
    /\ hist.offend
    /\ ret.op = "write"
    /\ \E j \in 1..Len(rstreams) : rstreams[j].pos > 0
    /\ \E i \in OpenWriters :
          /\ wstreams[i].actual_length = 2
          /\ Slice(fp.data, Len(fp.data) - 2, 2) = wlog[i].data

(***************************************************************************)
(* C10.  For a ReadStream over a member with data_offset o and data_size s *)
(* and any sequence of read(n) calls (n < 0: all that is left),            *)
(* interleaved with reads on other ReadStreams, scan steps and appends:    *)
(* every call returns at most min(n, s - read so far) bytes, taken from    *)
(* the absolute position o + read so far; the bytes returned so far are a  *)
(* prefix of the store's bytes [o, o + s); the total never exceeds s; and  *)
(* once s bytes have been returned every further read returns nothing.     *)
(***************************************************************************)
C10_ReadStreamBounded ==
    [][/\ \A j \in 1..MaxReaders, n \in ReadSizes :
             Read(j, n)
             => /\ Len(ret'.data) <= rstreams[j].length - rstreams[j].pos
                /\ n >= 0 => Len(ret'.data) <= n
                /\ ret'.data = Slice(fp.data, rstreams[j].start + rstreams[j].pos,
                                     Len(ret'.data))
                /\ rstreams'[j].pos = rstreams[j].pos + Len(ret'.data)
                /\ rstreams[j].pos = rstreams[j].length => ret'.data = <<>>
       /\ \A j \in 1..Len(rstreams') :
             /\ rstreams'[j].pos <= rstreams'[j].length
             /\ Len(rlog'[j].got) = rstreams'[j].pos
             /\ IsPrefix(rlog'[j].got,
                         Slice(fp'.data, rstreams'[j].start, rstreams'[j].length))]_vars

\* two ReadStreams have both returned bytes, a scan has taken steps, and a
\* read on a stream that had returned all its bytes has returned nothing
C10_Witness ==
    /\ Len(rstreams) = 2
    /\ \A j \in 1..2 : rstreams[j].pos = rstreams[j].length /\ rstreams[j].pos > 0
    /\ gen.state = "suspended"
    /\ ret.op = "read"
    /\ ret.data = <<>>

(***************************************************************************)
(* Scanning stores of any content (SpecScan)                               *)
(*                                                                         *)
(* A read-mode archive is constructed over a store that already holds      *)
(* bytes: archives as the write side leaves them, whole and cut short, and *)
(* headers whose fields hold what a foreign writer may have put there.     *)
(***************************************************************************)

\* a magic that is not 070701
BadMagic == <<48, 55, 48, 55, 48, 55>>

\* what the 8 bytes of a header field may hold
FieldTexts ==
    {
      <<48, 48, 48, 48, 48, 48, 48, 48>>,  \* '00000000': zero
      <<48, 48, 48, 48, 48, 48, 48, 49>>,  \* '00000001': plain
      <<48, 48, 48, 48, 48, 48, 48, 65>>,  \* '0000000A': upper case digit
      <<43, 48, 48, 48, 48, 48, 48, 49>>,  \* '+0000001': plus sign
      <<45, 48, 48, 48, 48, 48, 48, 49>>,  \* '-0000001': minus sign
      <<48, 120, 48, 48, 48, 48, 48, 49>>,  \* '0x000001': 0x prefix
      <<32, 32, 32, 32, 32, 32, 32, 49>>,  \* '       1': leading spaces
      <<49, 32, 32, 32, 32, 32, 32, 32>>,  \* '1       ': trailing spaces
      <<48, 48, 48, 48, 95, 48, 48, 49>>,  \* '0000_001': underscore between digits
      <<48, 48, 48, 48, 48, 48, 48, 103>>,  \* '0000000g': a letter that is no hex digit
      <<48, 48, 95, 95, 48, 48, 48, 49>>,  \* '00__0001': two underscores
      <<0, 48, 48, 48, 48, 48, 48, 49>>,  \* '\x000000001': a NUL
      <<45, 48, 48, 48, 48, 48, 55, 48>>   \* '-0000070': minus 0x70 = -112
    }

\* the header fields that are put to the test with every text: ino,
\* filesize, namesize
ProbeFields == {1, 7, 12}

\* the texts the check field, and the fields behind a bad magic, are given:
\* zero and a numeral int() rejects
CheckTexts ==
    {<<48, 48, 48, 48, 48, 48, 48, 48>>, <<48, 48, 48, 48, 48, 48, 48, 103>>}

\* the fields of a header of zeros with the given namesize
PlainFields(namesize) ==
    [k \in 1..13 |-> IF k = 12 THEN Pack8s(FormatHex08(namesize)) ELSE Zero8]

\* the bytes _ENTRY_HEADER.unpack takes apart: magic, then 13 fields f[k]
RawHeader(magic, f) ==
    magic \o f[1] \o f[2] \o f[3] \o f[4] \o f[5] \o f[6] \o f[7] \o f[8]
          \o f[9] \o f[10] \o f[11] \o f[12] \o f[13]

\* an entry whose field k holds text, then a trailer.  The name area is "a"
\* NUL, or two NULs where namesize is the field tested; where filesize is,
\* one data byte and its padding follow.
ProbeStore(magic, k, text) ==
    RawHeader(magic, [PlainFields(2) EXCEPT ![k] = text])
       \o (IF k = 12 THEN <<0, 0>> ELSE <<97, 0>>)
       \o (IF k = 7 THEN <<100, 0, 0, 0>> ELSE <<>>)
       \o TrailerWire

\* name areas, NUL included where there is one: "a", the empty name, a name
\* with a NUL inside, a name with no NUL at its end, a name that is no UTF-8
NameAreas == {<<97, 0>>, <<0>>, <<97, 0, 98, 0>>, <<97, 98>>, <<255, 0>>}

\* an entry with the given name area and a true namesize, then a trailer
NameStore(area) ==
    RawHeader(MAGIC, PlainFields(Len(area))) \o area
       \o Repeat(0, PadTo4(HEADER_SIZE + Len(area))) \o TrailerWire

\* the store after members InfoB and InfoA were written and the archive closed
WrittenStore ==
    encode(InfoB) \o <<120, 0, 0, 0>> \o encode(InfoA) \o <<121, 122, 0, 0>>
       \o encode(TrailerInfo)

\* the lengths WrittenStore is cut to: inside and at the end of a header, a
\* name, a member's data, and the trailer
CutLens == {0, 50, 110, 111, 120, 230, 236, 360}

\* a member written after the archive was closed, and a second close
ReopenedStore ==
    WrittenStore \o encode(InfoB) \o <<120, 0, 0, 0>> \o encode(TrailerInfo)

Stores ==
    {ProbeStore(MAGIC, k, text) : k \in ProbeFields, text \in FieldTexts}
       \cup {ProbeStore(MAGIC, 13, text) : text \in CheckTexts}
       \cup {ProbeStore(BadMagic, k, text) : k \in {1, 12}, text \in CheckTexts}
       \cup {NameStore(area) : area \in NameAreas}
       \cup {SubSeq(WrittenStore, 1, n) : n \in CutLens}
       \cup {ReopenedStore}

\* the state after CPIOFile(fp, "r") over a store that holds bytes
InitScan ==
    /\ \E store \in Stores : fp = [data |-> store, pos |-> 0]
    /\ archive = CPIOFile_init("r").ar
    /\ wstreams = <<>>
    /\ rstreams = <<>>
    /\ gen = NoScan
    /\ gen2 = NoScan
    /\ ret = Result("init", "ok")
    /\ wlog = <<>>
    /\ rlog = <<>>
    /\ yielded = <<>>
    /\ hist = [trailers |-> 0, sealed |-> -1, stray |-> FALSE, offend |-> FALSE,
               moved |-> FALSE]

NextScan ==
    \/ Infolist
    \/ ScanNext
    \/ Infolist2
    \/ ScanNext2
    \/ \E info \in ReadInfos : Len(rstreams) = 0 /\ Len(yielded) > 0 /\ Open(info, "r")
    \/ \E j \in 1..MaxReaders, n \in ReadSizes : Read(j, n)

SpecScan == InitScan /\ [][NextScan]_vars

\* a scan that has yielded info and goes on as rest
Cons(info, rest) == [seq |-> <<info>> \o rest.seq, end |-> rest.end]

RECURSIVE ScanFrom(_, _)
\* the loop of infolist run without a pause from the result r of a step on,
\* for at most n descriptors: [seq, end], the descriptors yielded and how
\* the loop ends: "done" at the trailer, the error raised, or "more" when
\* n descriptors are not the end of it
ScanFrom(r, n) ==
    IF r.gen.state = "raised" THEN [seq |-> <<>>, end |-> r.gen.err]
    ELSE IF r.gen.state = "done" THEN [seq |-> <<>>, end |-> "done"]
    ELSE IF n = 1 THEN [seq |-> <<r.gen.info>>, end |-> "more"]
    ELSE Cons(r.gen.info, ScanFrom(infolist_next(r.gen, r.fp), n - 1))

\* list(archive.infolist()) over the store bytes data, up to MaxYield
WholeScan(data) ==
    ScanFrom(infolist_next(NewScan, [data |-> data, pos |-> 0]), MaxYield)

\* how a generator g has ended, if it has
ScanEnd(g) == IF g.state = "done" THEN "done" ELSE g.err

\* the scan gen, with what it has yielded, and the scan gen2 are both what
\* the scan w of the store is, as far as they have come
ScansAgree(w) ==
    /\ gen.state \in {"suspended", "done", "raised"}
       => /\ IsPrefix(yielded, w.seq)
          /\ gen.state = "suspended" => gen.info = yielded[Len(yielded)]
          /\ gen.state # "suspended" => yielded = w.seq /\ ScanEnd(gen) = w.end
    /\ gen2.state = "suspended" => \E k \in 1..Len(w.seq) : gen2.info = w.seq[k]
    /\ gen2.state \in {"done", "raised"} => ScanEnd(gen2) = w.end

(***************************************************************************)
(* C11.  Scanning is idempotent and restartable on an unmodified store:    *)
(* every scan of the same store bytes yields the same descriptors in the   *)
(* same order (header_offset, numeric fields and name) and ends the same   *)
(* way, at the trailer or with the same error, wherever the cursor was     *)
(* before it and whether an earlier scan was consumed or abandoned: each   *)
(* is the scan that is a function of the store bytes alone.                *)
(***************************************************************************)
C11_ScanIdempotent == ScansAgree(WholeScan(fp.data))

\* a scan has run to the trailer over two members while another scan of the
\* same store, begun where a step of the first had left the cursor or the
\* other way round, is left part-way
C11_Witness ==
    /\ gen.state = "done"
    /\ Len(yielded) = 2
    /\ gen2.state = "suspended"
    /\ gen2.info = yielded[1]
    /\ fp.pos > 0

\* the descriptors _from_file has returned that the state still holds
Decoded ==
    {yielded[k] : k \in 1..Len(yielded)}
       \cup (IF gen.state \in {"suspended", "done"} THEN {gen.info} ELSE {})
       \cup (IF gen2.state \in {"suspended", "done"} THEN {gen2.info} ELSE {})

\* the entry of d begins at d.offset, its data behind header, name and NUL,
\* and it ends behind its data, a positive multiple of 4 from its beginning
EntryAligned(d) ==
    /\ offset_after(d) - d.offset > 0
    /\ (offset_after(d) - d.offset) % 4 = 0
    /\ offset_data(d) >= d.offset + 110 + Len(d.name) + 1
    /\ offset_after(d) >= offset_data(d) + d.filesize

(***************************************************************************)
(* C12.  For every decoded descriptor d with a name of any length >= 0 and *)
(* a data_size >= 0, entry_end(d) - header_offset(d) is a positive         *)
(* multiple of 4, data_offset(d) >= header_offset(d) + 110 + len(name) + 1 *)
(* and entry_end(d) >= data_offset(d) + data_size.                         *)
(***************************************************************************)
C12_EntryEndAligned ==
    \A d \in Decoded : d.filesize >= 0 => EntryAligned(d)

\* a scan has yielded a descriptor whose header with name and whose data
\* both need padding, and one at an offset that is not 0 whose data does
C12_Witness ==
    /\ \E d \in Decoded :
          /\ d.filesize % 4 # 0
          /\ (110 + Len(d.name) + 1) % 4 # 0
    /\ \E d \in Decoded :
          /\ d.offset > 0
          /\ d.filesize % 4 # 0

\* the 8 bytes of a field are hex digits 0-9, a-f, A-F and nothing else
IsHexField(field) == \A i \in 1..Len(field) : DigitVal(field[i]) >= 0

\* the 12 numeric fields (ino .. namesize) of the header d was decoded from
\* are all hex digits
HexHeader(d) ==
    \A k \in 1..12 : IsHexField(HeaderField(Slice(fp.data, d.offset, HEADER_SIZE), k))

(***************************************************************************)
(* C13.  Header decode rejects non-hex fields: no descriptor is produced   *)
(* from a header in which one of the 12 numeric fields holds a character   *)
(* that is not a hex digit (a sign, the x of a 0x prefix, a space, an      *)
(* underscore), so the header of every decoded descriptor holds hex digits *)
(* only in those fields.                                                   *)
(***************************************************************************)
C13_NonHexRejected == \A d \in Decoded : HexHeader(d)

\* the BadCPIOFile errors: the malformed-archive error and its kinds
MalformedArchive(err) ==
    err \in {"truncated", "bad_magic", "non_hex", "empty_name", "no_nul"}

\* where the next step of gen reads its header
NextOffset == IF gen.state = "new" THEN 0 ELSE offset_after(gen.info)

\* the error the claimed order gives a header read at offset p, "" where the
\* order names none: header is the bytes there, at most 110
ErrorInOrder(p, header) ==
    IF Len(header) < 110 THEN "truncated"
    ELSE IF SubSeq(header, 1, 6) # <<48, 55, 48, 55, 48, 49>> THEN "bad_magic"
    ELSE IF \E k \in 1..12 : ~IsHexField(HeaderField(header, k)) THEN ""
    ELSE IF HeaderField(header, 12) = Zero8 THEN "empty_name"
    ELSE IF Len(fp.data) - (p + 110) < DigitsVal(HeaderField(header, 12)) THEN "truncated"
    ELSE IF fp.data[p + 110 + DigitsVal(HeaderField(header, 12))] # 0 THEN "no_nul"
    ELSE ""

(***************************************************************************)
(* C14.  Decode errors are classified in a fixed order.  Fewer than 110    *)
(* bytes left: truncated, before any other check.  110 bytes that do not   *)
(* begin with 070701: bad magic, whatever the fields hold.  Right magic    *)
(* and all-hex fields: empty name if namesize is 00000000, else truncated  *)
(* if the name read comes short, else missing terminator if the last name  *)
(* byte is not NUL.  The failing entry yields no descriptor.               *)
(***************************************************************************)
C14_ErrorOrder ==
    [][(ret'.op = "next" /\ ScanNext
          /\ ErrorInOrder(NextOffset, Slice(fp.data, NextOffset, 110)) # "")
       => /\ gen'.state = "raised"
          /\ gen'.err = ErrorInOrder(NextOffset, Slice(fp.data, NextOffset, 110))
          /\ MalformedArchive(gen'.err)
          /\ yielded' = yielded]_vars

\* a step of a scan has failed for the magic on a header whose ino field is
\* no hex numeral either
C14_Witness ==
    /\ ret.op = "next"
    /\ gen.state = "raised"
    /\ gen.err = "bad_magic"
    /\ ~IsHexField(HeaderField(Slice(fp.data, 0, 110), 1))
    /\ ~PyInt16(HeaderField(Slice(fp.data, 0, 110), 1)).ok
    /\ yielded = <<>>

(***************************************************************************)
(* Modes (SpecWrite)                                                       *)
(***************************************************************************)

\* "CPIO is open read-only." and "Unknown mode ..."
ModeError(err) == err \in {"read_only", "unknown_mode"}

\* this call has left the store, its cursor, the archive and the streams alone
NoSideEffect ==
    /\ fp' = fp
    /\ archive' = archive
    /\ wstreams' = wstreams

(***************************************************************************)
(* C15.  Mode checks fail without side effects: open_member(d, 'w') on an  *)
(* archive opened in read mode fails with the mode error, open_member with *)
(* a mode other than 'r' and 'w' fails, and so does opening an archive     *)
(* with such a mode; none of them writes a byte to the store or changes    *)
(* writer_active.  Archive.close() on a read-mode archive writes nothing.  *)
(***************************************************************************)
C15_ModeChecks ==
    [][/\ \A d \in Infos :
             (Open(d, "w") /\ ~archive.writeable)
             => (ret'.err = "read_only" /\ NoSideEffect)
       /\ \A d \in Infos, mode \in Modes \ {"r", "w"} :
             Open(d, mode) => (ModeError(ret'.err) /\ NoSideEffect)
       /\ \A mode \in Modes \ {"r", "w"} : ModeError(CPIOFile_init(mode).err)
       /\ (CloseArchive /\ ~archive.writeable)
             => (ret'.err = "ok" /\ NoSideEffect)]_vars

\* open_member(d, 'w') has just failed on a read-mode archive
C15_Witness ==
    /\ ~archive.writeable
    /\ ret.op = "open_w"
    /\ ret.err = "read_only"
    /\ fp.data = <<>>

(***************************************************************************)
(* Names and termination (SpecScan), framing (SpecWrite)                   *)
(***************************************************************************)

\* the namesize the header d was decoded from holds
WireNamesize(d) ==
    PyInt16(HeaderField(Slice(fp.data, d.offset, HEADER_SIZE), 12)).val

(***************************************************************************)
(* C16.  Every descriptor a scan yields, over any store contents, has a    *)
(* name that is not empty and holds no NUL byte, and len(name) + 1 is the  *)
(* namesize of its header.                                                 *)
(***************************************************************************)
C16_NamesWellFormed ==
    \A k \in 1..Len(yielded) :
        /\ Len(yielded[k].name) > 0
        /\ \A i \in 1..Len(yielded[k].name) : yielded[k].name[i] # 0
        /\ Len(yielded[k].name) + 1 = WireNamesize(yielded[k])

(***************************************************************************)
(* C17.  A scan of any finite store terminates: the first descriptor it    *)
(* yields is at header_offset 0 and each later one at an offset strictly   *)
(* greater than the one before, so that the scan runs out of store and     *)
(* ends at the first TRAILER!!! or with a malformed-archive error.         *)
(***************************************************************************)
C17_OffsetsIncrease ==
    /\ Len(yielded) > 0 => yielded[1].offset = 0
    /\ \A k \in 2..Len(yielded) : yielded[k].offset > yielded[k - 1].offset

RECURSIVE FramedLen(_)
\* the bytes the first n members take when framed: header, name and data,
\* each padded to a multiple of 4
FramedLen(n) ==
    IF n = 0 THEN 0
    ELSE FramedLen(n - 1) + Len(encode(wlog[n].info)) + wlog[n].info.filesize
            + PadTo4(wlog[n].info.filesize)

\* no stream holds the latch and no close() has failed for the length
Quiescent ==
    /\ ~archive.writer_active
    /\ \A i \in 1..Len(wlog) : ~wlog[i].mismatch

(***************************************************************************)
(* C18.  Framing invariant of a write-mode archive over an empty store:    *)
(* whenever writer_active is false and no LengthMismatchError has          *)
(* occurred, after any open_member / write / close calls on any handles,   *)
(* closed ones included, the store is the framed entries of the members    *)
(* closed so far plus the trailers and nothing else: its length is the sum *)
(* of theirs, and a multiple of 4.                                         *)
(***************************************************************************)
C18_FramingInvariant ==
    (archive.writeable /\ Quiescent)
    => /\ Len(fp.data) = FramedLen(Len(wlog)) + hist.trailers * Len(TrailerWire)
       /\ Len(fp.data) % 4 = 0

(***************************************************************************)
(* C19.  A lazily consumed scan is unaffected by cursor movement between   *)
(* its steps: whatever ReadStream reads and steps of other scans have      *)
(* done to the cursor since the scan yielded its last descriptor, its next *)
(* step does what it would have done had the cursor stayed where the scan  *)
(* left it, and the descriptors it has yielded are still the beginning of  *)
(* the uninterrupted scan of that store.                                   *)
(***************************************************************************)
C19_ScanUnaffectedByCursor ==
    [][(gen.state = "suspended" /\ ret'.op = "next" /\ ScanNext)
       => /\ gen' = infolist_next(gen, [data |-> fp.data, pos |-> OwnCursor]).gen
          /\ IsPrefix(yielded', WholeScan(fp.data).seq)]_vars

\* the step that yielded the second descriptor of a scan found the cursor
\* moved, after a read on a ReadStream and a step of another scan
C19_Witness ==
    /\ ret.op = "next"
    /\ hist.moved
    /\ gen.state = "suspended"
    /\ Len(yielded) = 2
    /\ yielded[2].offset > yielded[1].offset
    /\ gen2.state \in {"suspended", "done"}
    /\ \E j \in 1..Len(rstreams) : rstreams[j].pos > 0

(***************************************************************************)
(* Writing on after Archive.close() (SpecReopen)                           *)
(*                                                                         *)
(* A caller that writes members as documented, calls close() on the        *)
(* archive when it likes, more than once, goes on writing members          *)
(* afterwards, and scans.                                                  *)
(***************************************************************************)

NextReopen ==
    \/ \E info \in {InfoA, InfoB} : Open(info, "w")
    \/ \E i \in 1..MaxWriters, data \in Chunks : WithinSize(i, data) /\ Write(i, data)
    \/ \E i \in 1..MaxWriters : WithinSize(i, <<>>) /\ CloseMember(i)
    \/ CloseArchive
    \/ Sealed /\ Infolist
    \/ Sealed /\ ScanNext

SpecReopen == Init /\ [][NextReopen]_vars

\* the members written before the first Archive.close(), as a scan decodes
\* them: k-th at the offset where the k - 1 before it end
Behind(k) == [wlog[k].info EXCEPT !.offset = FramedLen(k - 1)]

(***************************************************************************)
(* C20.  The archive keeps no closed state: every successful               *)
(* Archive.close() in write mode appends one more trailer, and after a     *)
(* close() open_member(d, 'w'), write and close still succeed.  A member   *)
(* appended after the first successful Archive.close() lies behind that    *)
(* trailer and is never yielded by a scan: the scan halts at the first     *)
(* trailer, however many the store holds.                                  *)
(***************************************************************************)
C20_NoClosedState ==
    [][/\ (CloseArchive /\ archive.writeable /\ ~archive.writer_active)
          => /\ ret'.err = "ok"
             /\ fp'.data = fp.data \o TrailerWire
             /\ hist'.trailers = hist.trailers + 1
             /\ ~archive'.writer_active
       /\ \A d \in {InfoA, InfoB} :
             (Sealed /\ ~archive.writer_active /\ Open(d, "w"))
             => (ret'.err = "ok" /\ Len(fp'.data) > Len(fp.data))
       /\ \A i \in 1..MaxWriters :
             (Sealed /\ CloseMember(i)
                /\ wstreams[i].actual_length = wstreams[i].expected_length)
             => (ret'.err = "ok" /\ ~archive'.writer_active)
       /\ Sealed'
          => /\ Len(yielded') <= hist'.sealed
             /\ \A k \in 1..Len(yielded') : yielded'[k] = Behind(k)
             /\ gen'.state # "raised"
             /\ gen'.state = "done"
                => /\ Len(yielded') = hist'.sealed
                   /\ gen'.info.offset = FramedLen(hist'.sealed)]_vars

\* a member was written and closed after the first Archive.close(), the
\* archive closed again, and a scan has halted at the first of two trailers
\* with only the member before it yielded
C20_Witness ==
    /\ hist.trailers = 2
    /\ hist.sealed = 1
    /\ Len(wstreams) = 2
    /\ wstreams[2].closed
    /\ Len(wlog[2].data) > 0
    /\ gen.state = "done"
    /\ Len(yielded) = 1
    /\ offset_after(gen.info) < Len(fp.data)

=============================================================================
